---- MODULE Spec2Model ----
(***************************************************************************)
(* Model of the v7 quote fetch pipeline of yfinance-rs:                    *)
(*   src/src/core/quotes.rs   fetch_v7_quote_body / attempt_fetch,         *)
(*                            fetch_v7_quotes, fetch_v7_quotes_raw,        *)
(*                            From<V7QuoteNode> for Quote                  *)
(*   src/src/ticker/quote.rs  fetch_quote, fetch_quote_raw                 *)
(*                                                                         *)
(* Spec       fetches issued on one client, one at a time; every await of  *)
(*            fetch_v7_quote_body is one step.  The result of a fetch is   *)
(*            the Result<String, YfError> of fetch_v7_quote_body.          *)
(* SpecQuote  the decoding of a body result by fetch_v7_quotes(_raw) and   *)
(*            the single-symbol wrappers on top of it, as functions of     *)
(*            the body result.                                             *)
(* SpecDecode one fetch_v7_quotes / fetch_v7_quotes_raw call from request  *)
(*            to decoded sequence, the server answering with any body.     *)
(* SpecConvert  the conversion of one V7QuoteNode into a Quote.            *)
(* SpecLive   Spec with every collaborator returning (weak fairness).      *)
(* SpecConc   two concurrent fetches on one client.                        *)
(*                                                                         *)
(* Option<T> is a sequence of length <= 1: None is << >>, Some(x) is <<x>>.*)
(* A string that the code assembles from parts is a sequence of tokens.    *)
(* retry_override is handed unchanged to send_with_retry and is left out.  *)
(***************************************************************************)
EXTENDS Integers, Sequences, FiniteSets, TLC

VARIABLES
    cache,      \* Cache Store of the client: a function from Url to body
    crumb,      \* Credential Manager's current crumb, an Option
    pc,         \* pc[p]: the await the fetch of caller p stands at
    req,        \* req[p]: arguments of the running fetch_v7_quote_body call
    loc,        \* loc[p]: locals of the call (attempt, crumb argument, url, response)
    res,        \* res[p]: the Result the call returned
    hist,       \* hist[p]: what the call has done so far (history, read by the properties only)
    nfetch,     \* number of fetches started so far
    quote       \* SpecQuote: decoding of one body result

vars == <<cache, crumb, pc, req, loc, res, hist, nfetch, quote>>

(***************************************************************************)
(* Bounds                                                                  *)
(***************************************************************************)
MaxFetches == 2

Procs == {"f1", "f2"}
SeqProcs == {"f1"}

None == << >>
Some(x) == <<x>>

SymbolLists == {<<"AAPL">>, <<"AAPL", "TSLA">>}
FieldOpts == {None, Some(<< >>), Some(<<"beta">>)}
CacheModes == {"Use", "Bypass"}
Crumbs == {"c1", "c2"}
StatusCodes == {200, 401, 403, 404, 418, 429, 500, 503, 599, 600}

\* response bodies: the text of a 2xx response, and of a non-2xx one
OkBodies == {"{\"quoteResponse\":{\"result\":[]}}", "{\"quoteResponse\":{\"result\":[{\"symbol\":\"AAPL\"}]}}"}
ErrBodies == {"<html>denied</html>"}

(***************************************************************************)
(* YfError values and Results                                              *)
(***************************************************************************)
Err(kind, status, url, msg) == [kind |-> kind, status |-> status, url |-> url, msg |-> msg]
NoErr == Err("", 0, "", << >>)

NotFound(url_s) == Err("NotFound", 0, url_s, << >>)
RateLimited(url_s) == Err("RateLimited", 0, url_s, << >>)
ServerError(status, url_s) == Err("ServerError", status, url_s, << >>)
Status(status, url_s) == Err("Status", status, url_s, << >>)
Auth(msg) == Err("Auth", 0, "", msg)
MissingData(msg) == Err("MissingData", 0, "", msg)

Ok(v) == [ok |-> TRUE, value |-> v, err |-> NoErr]
Fail(e) == [ok |-> FALSE, value |-> << >>, err |-> e]
NoResult == [ok |-> FALSE, value |-> << >>, err |-> Err("pending", 0, "", << >>)]

\* errors of the collaborators, which the code propagates with `?`
SendErrors == {Err("Transport", 0, "", <<"send_with_retry">>)}
BodyErrors == {Err("Transport", 0, "", <<"get_text">>)}
EnsureErrors == {Auth(<<"crumb fetch failed">>), Auth(<<"cookie fetch failed">>)}

(***************************************************************************)
(* The canonical request URL                                               *)
(***************************************************************************)
base_quote_v7 == "https://query1.finance.yahoo.com/v7/finance/quote"

\* [T]::join(sep), as a sequence of tokens
RECURSIVE Join(_, _)
Join(list, sep) ==
    IF Len(list) = 0 THEN << >>
    ELSE IF Len(list) = 1 THEN <<list[1]>>
    ELSE <<list[1], sep>> \o Join(Tail(list), sep)

\* mutant: an empty field list is appended too
BuildUrlEmptyFields(symbols, fields, crumbArg) ==
    LET p1 == <<<<"symbols", Join(symbols, ",")>>>>
        p2 == IF fields /= None THEN <<<<"fields", Join(fields[1], ",")>>>> ELSE << >>
        p3 == IF crumbArg /= None THEN <<<<"crumb", <<crumbArg[1]>>>>>> ELSE << >>
    IN  [base |-> base_quote_v7, query |-> p1 \o p2 \o p3]

\* attempt_fetch, the URL it builds
BuildUrl(symbols, fields, crumbArg) ==
    LET p1 == <<<<"symbols", Join(symbols, ",")>>>>
        p2 == IF fields /= None /\ Len(fields[1]) /= 0
              THEN <<<<"fields", Join(fields[1], ",")>>>>
              ELSE << >>
        p3 == IF crumbArg /= None THEN <<<<"crumb", <<crumbArg[1]>>>>>> ELSE << >>
    IN  [base |-> base_quote_v7, query |-> p1 \o p2 \o p3]

\* application/x-www-form-urlencoded serialisation of one token
FormEncode(tok) == IF tok = "," THEN "%2C" ELSE tok

RECURSIVE EncodeValue(_)
EncodeValue(toks) ==
    IF Len(toks) = 0 THEN "" ELSE FormEncode(toks[1]) \o EncodeValue(Tail(toks))

RECURSIVE EncodePairs(_)
EncodePairs(pairs) ==
    IF Len(pairs) = 0 THEN ""
    ELSE pairs[1][1] \o "=" \o EncodeValue(pairs[1][2])
         \o (IF Len(pairs) > 1 THEN "&" ELSE "") \o EncodePairs(Tail(pairs))

\* Url::to_string
UrlToString(url) == url.base \o "?" \o EncodePairs(url.query)

HasParam(url, name) == \E i \in 1..Len(url.query) : url.query[i][1] = name

(***************************************************************************)
(* Response bodies as JSON documents                                       *)
(*                                                                         *)
(* A parsed body is [valid, top, qr, result, items]: valid is whether the  *)
(* text is JSON at all, top is the kind of the outermost value ("object"   *)
(* or "array"), qr and result say what stands at "quoteResponse" and at    *)
(* "quoteResponse.result" ("absent", "null", "object", "array"), items are *)
(* the elements of the result array.  When top is "array", qr, result and  *)
(* items describe the first element of that array instead: a struct with   *)
(* #[derive(Deserialize)] (quotes.rs:17-21) is also read from a JSON array *)
(* holding its fields in declaration order, which is where the typed parse *)
(* then finds quote_response, while Value::get("quoteResponse") finds      *)
(* nothing in an array.  An element has Option fields; a                   *)
(* number is [t |-> "num", v |-> its text], a string [t |-> "str", ...].   *)
(* Of V7QuoteNode the fields symbol, shortName, regularMarketPrice and the *)
(* four exchange fields are modelled; "beta" is a field the typed model    *)
(* does not know.                                                          *)
(***************************************************************************)
Num(v) == [t |-> "num", v |-> v]
Str(v) == [t |-> "str", v |-> v]

NodeDoc(symbol, price, full, exch, beta) ==
    [symbol |-> symbol, shortName |-> None, regularMarketPrice |-> price,
     fullExchangeName |-> full, exchange |-> exch, market |-> None,
     marketCapFigureExchange |-> None, beta |-> beta]

NodeAAPL == NodeDoc(Some(Str("AAPL")), None, None, None, None)
NodeAAPLFull == NodeDoc(Some(Str("AAPL")), Some(Num("190.25")), Some(Str("NasdaqGS")), Some(Str("NMS")), None)
NodeTSLA == NodeDoc(Some(Str("TSLA")), None, None, Some(Str("NMS")), Some(Num("0.87")))
NodeBadPrice == NodeDoc(Some(Str("AAPL")), Some(Str("n/a")), None, None, None)

Doc(valid, qr, result, items) ==
    [valid |-> valid, top |-> "object", qr |-> qr, result |-> result, items |-> items]

\* a body whose outermost value is an array with one element
DocSeq(qr, result, items) == [Doc(TRUE, qr, result, items) EXCEPT !.top = "array"]

\* serde_json::from_str::<Value>(&body), on the bodies of the model
ParseJson(body) ==
    CASE body = "{}" -> Doc(TRUE, "absent", "absent", << >>)
      [] body = "{\"quoteResponse\":null}" -> Doc(TRUE, "null", "absent", << >>)
      [] body = "{\"quoteResponse\":{\"error\":null}}" -> Doc(TRUE, "object", "absent", << >>)
      [] body = "{\"quoteResponse\":{\"result\":null}}" -> Doc(TRUE, "object", "null", << >>)
      [] body = "{\"quoteResponse\":{\"result\":{}}}" -> Doc(TRUE, "object", "object", << >>)
      [] body = "{\"quoteResponse\":{\"result\":[]}}" -> Doc(TRUE, "object", "array", << >>)
      [] body = "{\"quoteResponse\":{\"result\":[{\"symbol\":\"AAPL\"}]}}" ->
            Doc(TRUE, "object", "array", <<NodeAAPL>>)
      [] body = "{\"quoteResponse\":{\"result\":[AAPL,TSLA]}}" ->
            Doc(TRUE, "object", "array", <<NodeAAPLFull, NodeTSLA>>)
      [] body = "{\"quoteResponse\":{\"result\":[TSLA,{\"regularMarketPrice\":\"n/a\"}]}}" ->
            Doc(TRUE, "object", "array", <<NodeTSLA, NodeBadPrice>>)
      [] body = "[{\"result\":[{\"symbol\":\"AAPL\"}]}]" ->
            DocSeq("object", "array", <<NodeAAPL>>)
      [] body = "[null]" -> DocSeq("null", "absent", << >>)
      [] OTHER -> Doc(FALSE, "absent", "absent", << >>)

QuoteBodies ==
    OkBodies \cup
    { "not json", "{}", "{\"quoteResponse\":null}", "{\"quoteResponse\":{\"error\":null}}",
      "{\"quoteResponse\":{\"result\":null}}", "{\"quoteResponse\":{\"result\":{}}}",
      "{\"quoteResponse\":{\"result\":[AAPL,TSLA]}}",
      "{\"quoteResponse\":{\"result\":[TSLA,{\"regularMarketPrice\":\"n/a\"}]}}",
      "[{\"result\":[{\"symbol\":\"AAPL\"}]}]", "[null]" }

\* the serde_json::Error of a body that does not parse, as a YfError
DecodeError == Err("Decode", 0, "", << >>)

StrOf(field) == IF field = None THEN None ELSE Some(field[1].v)

\* quotes.rs:30-49  whether a result element deserialises as V7QuoteNode
NodeTypeOk(n) ==
    /\ \A f \in {n.symbol, n.shortName, n.fullExchangeName, n.exchange, n.market,
                 n.marketCapFigureExchange} : f = None \/ f[1].t = "str"
    /\ n.regularMarketPrice = None \/ n.regularMarketPrice[1].t = "num"

\* quotes.rs:30-49  the V7QuoteNode of a result element
V7QuoteNode(n) ==
    [symbol |-> StrOf(n.symbol), short_name |-> StrOf(n.shortName),
     regular_market_price |-> StrOf(n.regularMarketPrice),
     full_exchange_name |-> StrOf(n.fullExchangeName), exchange |-> StrOf(n.exchange),
     market |-> StrOf(n.market),
     market_cap_figure_exchange |-> StrOf(n.marketCapFigureExchange)]

\* quotes.rs:17-28, 181  serde_json::from_str::<V7Envelope>(&body) succeeds
EnvelopeTypeOk(doc) ==
    /\ doc.valid
    /\ doc.top = "array" => doc.qr /= "absent"
    /\ doc.qr = "object" => doc.result \in {"absent", "null", "array"}
    /\ \A i \in 1..Len(doc.items) : NodeTypeOk(doc.items[i])

\* quotes.rs:180-186  fetch_v7_quotes, given the Result of fetch_v7_quote_body
FetchV7Quotes(body) ==
    IF ~body.ok THEN Fail(body.err)
    ELSE LET doc == ParseJson(body.value)
         IN  IF ~EnvelopeTypeOk(doc) THEN Fail(DecodeError)
             ELSE IF doc.qr = "object" /\ doc.result = "array"
                  THEN Ok([i \in 1..Len(doc.items) |-> V7QuoteNode(doc.items[i])])
                  ELSE Ok(<< >>)

\* quotes.rs:197-207  fetch_v7_quotes_raw, given the Result of fetch_v7_quote_body
FetchV7QuotesRaw(body) ==
    IF ~body.ok THEN Fail(body.err)
    ELSE LET value == ParseJson(body.value)
         IN  IF ~value.valid THEN Fail(DecodeError)
             ELSE IF value.top = "object" /\ value.qr = "object" /\ value.result = "array"
                  THEN Ok(value.items)
                  ELSE Ok(<< >>)

\* crate::core::conversions::string_to_exchange: the exchange parsed from a name
StringToExchange(name) == IF name = None THEN None ELSE Some([parsed_from |-> name[1]])

\* Option::or
OrElse(a, b) == IF a /= None THEN a ELSE b

\* mutant: the short exchange code is preferred to the full exchange name
QuoteFromExchangeFirst(n) ==
    [symbol |-> IF n.symbol = None THEN "" ELSE n.symbol[1],
     shortname |-> n.short_name,
     exchange |-> StringToExchange(
         OrElse(OrElse(OrElse(n.exchange, n.full_exchange_name), n.market),
                n.market_cap_figure_exchange))]

\* quotes.rs:210-230  From<V7QuoteNode> for Quote
QuoteFrom(n) ==
    [symbol |-> IF n.symbol = None THEN "" ELSE n.symbol[1],
     shortname |-> n.short_name,
     exchange |-> StringToExchange(
         OrElse(OrElse(OrElse(n.full_exchange_name, n.exchange), n.market),
                n.market_cap_figure_exchange))]

\* format!("no quote result found for symbol {symbol}")
NoQuoteMessage(symbol) == <<"no quote result found for symbol ", symbol>>

\* mutant: the first record is taken instead of the last
FetchQuoteFirst(results, symbol) ==
    IF ~results.ok THEN Fail(results.err)
    ELSE IF Len(results.value) = 0
         THEN Fail(MissingData(NoQuoteMessage(symbol)))
         ELSE Ok(QuoteFrom(results.value[1]))

\* mutant: an empty result is answered with a default record
FetchQuoteRawNoCheck(results, symbol) ==
    IF ~results.ok THEN Fail(results.err)
    ELSE IF Len(results.value) = 0
         THEN Ok(NodeDoc(None, None, None, None, None))
         ELSE Ok(results.value[Len(results.value)])

\* ticker/quote.rs:34-40  fetch_quote_raw, given the Result of fetch_v7_quotes_raw
FetchQuoteRaw(results, symbol) ==
    IF ~results.ok THEN Fail(results.err)
    ELSE IF Len(results.value) = 0
         THEN Fail(MissingData(NoQuoteMessage(symbol)))
         ELSE Ok(results.value[Len(results.value)])

\* ticker/quote.rs:15-24  fetch_quote, given the Result of fetch_v7_quotes
FetchQuote(results, symbol) ==
    IF ~results.ok THEN Fail(results.err)
    ELSE IF Len(results.value) = 0
         THEN Fail(MissingData(NoQuoteMessage(symbol)))
         ELSE Ok(QuoteFrom(results.value[Len(results.value)]))

(***************************************************************************)
(* History of one call: the collaborator calls it made, in order           *)
(***************************************************************************)
NoUrl == [base |-> "", query |-> << >>]
Event(op, url, status, body) == [op |-> op, url |-> url, status |-> status, body |-> body]

RECURSIVE Count(_, _)
Count(log, op) ==
    IF Len(log) = 0 THEN 0
    ELSE (IF log[1].op = op THEN 1 ELSE 0) + Count(Tail(log), op)

Logged(h, evs) == [h EXCEPT !.log = h.log \o evs]

(***************************************************************************)
(* attempt_fetch and fetch_v7_quote_body, condition by condition           *)
(***************************************************************************)
\* mutant: the read guard inverted
CacheReadGuardInverted(cache_mode) == cache_mode /= "Use"

\* quotes.rs:81   cache_mode == CacheMode::Use
CacheReadGuard(cache_mode) == cache_mode = "Use"

\* mutant: the write guard dropped
CacheWriteGuardAlways(cache_mode) == TRUE

\* quotes.rs:101  cache_mode != CacheMode::Bypass
CacheWriteGuard(cache_mode) == cache_mode /= "Bypass"

\* quotes.rs:100  status.is_success()
IsSuccess(status) == status >= 200 /\ status <= 299

\* mutant: a rate-limited answer is taken for an authorization failure too
IsUnauthorizedOr429(status_code) == status_code \in {401, 403, 429}

\* mutant: 403 is not taken for an authorization failure
IsUnauthorizedOnly401(status_code) == status_code = 401

\* quotes.rs:116  status_code == 401 || status_code == 403
IsUnauthorized(status_code) == status_code = 401 \/ status_code = 403

\* quotes.rs:150-162  the match of the first attempt
ErrorForStatusAnon(status_code, url) ==
    LET url_s == UrlToString(url)
    IN  IF status_code = 404 THEN NotFound(url_s)
        ELSE IF status_code = 429 THEN RateLimited(url_s)
        ELSE IF status_code >= 500 /\ status_code <= 599 THEN ServerError(status_code, url_s)
        ELSE Status(status_code, url_s)

\* mutant: the range 500..=599 written without its upper end
ErrorForStatusAuthExclusive(status_code, url) ==
    LET url_s == UrlToString(url)
    IN  IF status_code = 404 THEN NotFound(url_s)
        ELSE IF status_code = 429 THEN RateLimited(url_s)
        ELSE IF status_code >= 500 /\ status_code < 599 THEN ServerError(status_code, url_s)
        ELSE Status(status_code, url_s)

\* quotes.rs:133-147  the match of the second attempt
ErrorForStatusAuth(status_code, url) ==
    LET url_s == UrlToString(url)
    IN  IF status_code = 404 THEN NotFound(url_s)
        ELSE IF status_code = 429 THEN RateLimited(url_s)
        ELSE IF status_code >= 500 /\ status_code <= 599 THEN ServerError(status_code, url_s)
        ELSE Status(status_code, url_s)

\* mutant: a 401 or 403 of the second attempt starts another refresh
AfterAttemptRetryAgain(attempt, body, url, maybe_status) ==
    IF maybe_status = None
    THEN [pc |-> "done", res |-> Ok(body)]
    ELSE IF IsUnauthorized(maybe_status[1])
         THEN [pc |-> "ensure_credentials", res |-> NoResult]
         ELSE [pc |-> "done", res |-> Fail(ErrorForStatusAnon(maybe_status[1], url))]

\* mutant: the error status of the authenticated attempt is ignored and its body returned
AfterAttemptSwallowsStatus(attempt, body, url, maybe_status) ==
    IF maybe_status = None
    THEN [pc |-> "done", res |-> Ok(body)]
    ELSE IF attempt = 1
         THEN IF IsUnauthorized(maybe_status[1])
              THEN [pc |-> "ensure_credentials", res |-> NoResult]
              ELSE [pc |-> "done", res |-> Fail(ErrorForStatusAnon(maybe_status[1], url))]
         ELSE [pc |-> "done", res |-> Ok(body)]

\* quotes.rs:114-168  what fetch_v7_quote_body does with Ok((body, url, maybe_status))
\* of attempt number `attempt`: the await it goes to next, or the Result it returns
AfterAttempt(attempt, body, url, maybe_status) ==
    IF maybe_status = None
    THEN [pc |-> "done", res |-> Ok(body)]
    ELSE IF attempt = 1
         THEN IF IsUnauthorized(maybe_status[1])
              THEN [pc |-> "ensure_credentials", res |-> NoResult]
              ELSE [pc |-> "done", res |-> Fail(ErrorForStatusAnon(maybe_status[1], url))]
         ELSE [pc |-> "done", res |-> Fail(ErrorForStatusAuth(maybe_status[1], url))]

\* client.cache_put(&url, &body, None): last write wins
CachePutStore(store, url, body) ==
    [k \in DOMAIN store \cup {url} |-> IF k = url THEN body ELSE store[k]]

\* client.cache_get(&url)
CacheGet(store, url) == IF url \in DOMAIN store THEN Some(store[url]) ELSE None

(***************************************************************************)
(* State                                                                   *)
(***************************************************************************)
NoLoc == [attempt |-> 0, crumb |-> None, url |-> NoUrl, status |-> 0, body |-> ""]
NoReq == [symbols |-> << >>, fields |-> None, cache_mode |-> "Use"]
NoHist == [log |-> << >>, cache0 |-> << >>]
NoQuote == [stage |-> "off"]

InitFetch ==
    /\ cache = << >>
    /\ crumb = None
    /\ pc = [p \in Procs |-> "idle"]
    /\ req = [p \in Procs |-> NoReq]
    /\ loc = [p \in Procs |-> NoLoc]
    /\ res = [p \in Procs |-> NoResult]
    /\ hist = [p \in Procs |-> NoHist]
    /\ nfetch = 0

Init == InitFetch /\ quote = NoQuote

\* a step of p that ends at k = [pc, res]
Goto(p, k) ==
    /\ pc' = [pc EXCEPT ![p] = k.pc]
    /\ res' = [res EXCEPT ![p] = k.res]

(***************************************************************************)
(* Actions of a fetch                                                      *)
(***************************************************************************)
\* quotes.rs:51-57, 110-112  a caller starts fetch_v7_quote_body
Call(p, symbols, fields, cache_mode) ==
    /\ pc[p] \in {"idle", "done"}
    /\ nfetch < MaxFetches
    /\ nfetch' = nfetch + 1
    /\ req' = [req EXCEPT ![p] = [symbols |-> symbols, fields |-> fields, cache_mode |-> cache_mode]]
    /\ loc' = [loc EXCEPT ![p] = [NoLoc EXCEPT !.attempt = 1]]
    /\ hist' = [hist EXCEPT ![p] = [log |-> << >>, cache0 |-> cache]]
    /\ Goto(p, [pc |-> "attempt_fetch", res |-> NoResult])
    /\ UNCHANGED <<cache, crumb, quote>>

\* mutant: the cache is read under the crumb-free key on both attempts
AttemptFetchAnonKeyRead(p) ==
    /\ pc[p] = "attempt_fetch"
    /\ LET url == BuildUrl(req[p].symbols, req[p].fields, loc[p].crumb)
           begin == Event("attempt_fetch", url, 0, "")
       IN  /\ loc' = [loc EXCEPT ![p].url = url]
           /\ IF CacheReadGuard(req[p].cache_mode)
              THEN LET got == CacheGet(cache, BuildUrl(req[p].symbols, req[p].fields, None))
                   IN  IF got /= None
                       THEN /\ hist' = [hist EXCEPT ![p] =
                                   Logged(@, <<begin, Event("cache_get", url, 0, got[1])>>)]
                            /\ Goto(p, AfterAttempt(loc[p].attempt, got[1], url, None))
                       ELSE /\ hist' = [hist EXCEPT ![p] =
                                   Logged(@, <<begin, Event("cache_get", url, 0, "")>>)]
                            /\ Goto(p, [pc |-> "send_with_retry", res |-> NoResult])
              ELSE /\ hist' = [hist EXCEPT ![p] = Logged(@, <<begin>>)]
                   /\ Goto(p, [pc |-> "send_with_retry", res |-> NoResult])
    /\ UNCHANGED <<cache, crumb, req, nfetch, quote>>

\* mutant: a cache hit is written back to the cache
AttemptFetchWriteBack(p) ==
    /\ pc[p] = "attempt_fetch"
    /\ LET url == BuildUrl(req[p].symbols, req[p].fields, loc[p].crumb)
           begin == Event("attempt_fetch", url, 0, "")
           got == CacheGet(cache, url)
       IN  IF req[p].cache_mode = "Use" /\ got /= None
           THEN /\ loc' = [loc EXCEPT ![p].url = url, ![p].body = got[1]]
                /\ hist' = [hist EXCEPT ![p] =
                       Logged(@, <<begin, Event("cache_get", url, 0, got[1])>>)]
                /\ Goto(p, [pc |-> "cache_put", res |-> NoResult])
           ELSE /\ loc' = [loc EXCEPT ![p].url = url]
                /\ hist' = [hist EXCEPT ![p] =
                       Logged(@, IF req[p].cache_mode = "Use"
                                 THEN <<begin, Event("cache_get", url, 0, "")>>
                                 ELSE <<begin>>)]
                /\ Goto(p, [pc |-> "send_with_retry", res |-> NoResult])
    /\ UNCHANGED <<cache, crumb, req, nfetch, quote>>

\* quotes.rs:67-85  attempt_fetch up to the cache read
AttemptFetch(p) ==
    /\ pc[p] = "attempt_fetch"
    /\ LET url == BuildUrl(req[p].symbols, req[p].fields, loc[p].crumb)
           begin == Event("attempt_fetch", url, 0, "")
       IN  /\ loc' = [loc EXCEPT ![p].url = url]
           /\ IF CacheReadGuard(req[p].cache_mode)
              THEN LET got == CacheGet(cache, url)
                   IN  IF got /= None
                       THEN /\ hist' = [hist EXCEPT ![p] =
                                   Logged(@, <<begin, Event("cache_get", url, 0, got[1])>>)]
                            /\ Goto(p, AfterAttempt(loc[p].attempt, got[1], url, None))
                       ELSE /\ hist' = [hist EXCEPT ![p] =
                                   Logged(@, <<begin, Event("cache_get", url, 0, "")>>)]
                            /\ Goto(p, [pc |-> "send_with_retry", res |-> NoResult])
              ELSE /\ hist' = [hist EXCEPT ![p] = Logged(@, <<begin>>)]
                   /\ Goto(p, [pc |-> "send_with_retry", res |-> NoResult])
    /\ UNCHANGED <<cache, crumb, req, nfetch, quote>>

\* mutant: a failed body read is taken for an empty body with the status read before
SendWithRetryBodyErrorDropped(p, bodies) ==
    /\ pc[p] = "send_with_retry"
    /\ LET url == loc[p].url
           send == Event("send", url, 0, "")
       IN  \/ \E e \in SendErrors :
                /\ hist' = [hist EXCEPT ![p] = Logged(@, <<send, Event("send_error", url, 0, "")>>)]
                /\ loc' = loc
                /\ Goto(p, [pc |-> "done", res |-> Fail(e)])
           \/ \E e \in BodyErrors, status \in StatusCodes :
                /\ hist' = [hist EXCEPT ![p] = Logged(@, <<send, Event("body_error", url, 0, "")>>)]
                /\ loc' = [loc EXCEPT ![p].status = status, ![p].body = ""]
                /\ IF IsSuccess(status)
                   THEN IF CacheWriteGuard(req[p].cache_mode)
                        THEN Goto(p, [pc |-> "cache_put", res |-> NoResult])
                        ELSE Goto(p, AfterAttempt(loc[p].attempt, "", url, None))
                   ELSE Goto(p, AfterAttempt(loc[p].attempt, "", url, Some(status)))
           \/ \E status \in StatusCodes :
              \E body \in (IF IsSuccess(status) THEN bodies ELSE ErrBodies) :
                /\ hist' = [hist EXCEPT ![p] = Logged(@, <<send, Event("response", url, status, body)>>)]
                /\ loc' = [loc EXCEPT ![p].status = status, ![p].body = body]
                /\ IF IsSuccess(status)
                   THEN IF CacheWriteGuard(req[p].cache_mode)
                        THEN Goto(p, [pc |-> "cache_put", res |-> NoResult])
                        ELSE Goto(p, AfterAttempt(loc[p].attempt, body, url, None))
                   ELSE Goto(p, AfterAttempt(loc[p].attempt, body, url, Some(status)))
    /\ UNCHANGED <<cache, crumb, req, nfetch, quote>>

\* quotes.rs:87-107  send_with_retry, get_text, and what attempt_fetch returns;
\* bodies are the texts a 2xx response may carry
SendWithRetryFrom(p, bodies) ==
    /\ pc[p] = "send_with_retry"
    /\ LET url == loc[p].url
           send == Event("send", url, 0, "")
       IN  \/ \E e \in SendErrors :
                /\ hist' = [hist EXCEPT ![p] = Logged(@, <<send, Event("send_error", url, 0, "")>>)]
                /\ loc' = loc
                /\ Goto(p, [pc |-> "done", res |-> Fail(e)])
           \/ \E e \in BodyErrors :   \* get_text fails: the status read before it is dropped
                /\ hist' = [hist EXCEPT ![p] = Logged(@, <<send, Event("body_error", url, 0, "")>>)]
                /\ loc' = loc
                /\ Goto(p, [pc |-> "done", res |-> Fail(e)])
           \/ \E status \in StatusCodes :
              \E body \in (IF IsSuccess(status) THEN bodies ELSE ErrBodies) :
                /\ hist' = [hist EXCEPT ![p] = Logged(@, <<send, Event("response", url, status, body)>>)]
                /\ loc' = [loc EXCEPT ![p].status = status, ![p].body = body]
                /\ IF IsSuccess(status)
                   THEN IF CacheWriteGuard(req[p].cache_mode)
                        THEN Goto(p, [pc |-> "cache_put", res |-> NoResult])
                        ELSE Goto(p, AfterAttempt(loc[p].attempt, body, url, None))
                   ELSE Goto(p, AfterAttempt(loc[p].attempt, body, url, Some(status)))
    /\ UNCHANGED <<cache, crumb, req, nfetch, quote>>

\* quotes.rs:87-107  the same, answered by a server that sends well-formed quote lists
SendWithRetry(p) == SendWithRetryFrom(p, OkBodies)

\* mutant: the body is stored under the request URL and under the crumb-free key
CachePutBothKeys(p) ==
    /\ pc[p] = "cache_put"
    /\ LET key == BuildUrl(req[p].symbols, req[p].fields, None)
       IN  cache' = CachePutStore(CachePutStore(cache, key, loc[p].body), loc[p].url, loc[p].body)
    /\ hist' = [hist EXCEPT ![p] = Logged(@, <<Event("cache_put", loc[p].url, 0, loc[p].body)>>)]
    /\ Goto(p, AfterAttempt(loc[p].attempt, loc[p].body, loc[p].url, None))
    /\ UNCHANGED <<crumb, req, loc, nfetch, quote>>

\* mutant: the body is stored under the crumb-free key
CachePutAnonKey(p) ==
    /\ pc[p] = "cache_put"
    /\ LET key == BuildUrl(req[p].symbols, req[p].fields, None)
       IN  /\ cache' = CachePutStore(cache, key, loc[p].body)
           /\ hist' = [hist EXCEPT ![p] = Logged(@, <<Event("cache_put", key, 0, loc[p].body)>>)]
    /\ Goto(p, AfterAttempt(loc[p].attempt, loc[p].body, loc[p].url, None))
    /\ UNCHANGED <<crumb, req, loc, nfetch, quote>>

\* quotes.rs:102-104  cache_put, then Ok((body, url, None))
CachePut(p) ==
    /\ pc[p] = "cache_put"
    /\ cache' = CachePutStore(cache, loc[p].url, loc[p].body)
    /\ hist' = [hist EXCEPT ![p] = Logged(@, <<Event("cache_put", loc[p].url, 0, loc[p].body)>>)]
    /\ Goto(p, AfterAttempt(loc[p].attempt, loc[p].body, loc[p].url, None))
    /\ UNCHANGED <<crumb, req, loc, nfetch, quote>>

\* mutant: the error of ensure_credentials is dropped instead of returned
EnsureCredentialsErrorDropped(p) ==
    /\ pc[p] = "ensure_credentials"
    /\ \/ \E e \in EnsureErrors :
            /\ hist' = [hist EXCEPT ![p] = Logged(@, <<Event("ensure_credentials", NoUrl, 0, e.msg[1])>>)]
            /\ crumb' = crumb
            /\ Goto(p, [pc |-> "crumb", res |-> NoResult])
       \/ \E c \in {None} \cup {Some(x) : x \in Crumbs} :
            /\ hist' = [hist EXCEPT ![p] = Logged(@, <<Event("ensure_credentials", NoUrl, 0, "Ok")>>)]
            /\ crumb' = c
            /\ Goto(p, [pc |-> "crumb", res |-> NoResult])
    /\ UNCHANGED <<cache, req, loc, nfetch, quote>>

\* quotes.rs:117  client.ensure_credentials().await?
EnsureCredentials(p) ==
    /\ pc[p] = "ensure_credentials"
    /\ \/ \E e \in EnsureErrors :
            /\ hist' = [hist EXCEPT ![p] = Logged(@, <<Event("ensure_credentials", NoUrl, 0, e.msg[1])>>)]
            /\ crumb' = crumb
            /\ Goto(p, [pc |-> "done", res |-> Fail(e)])
       \/ \E c \in {None} \cup {Some(x) : x \in Crumbs} :
            /\ hist' = [hist EXCEPT ![p] = Logged(@, <<Event("ensure_credentials", NoUrl, 0, "Ok")>>)]
            /\ crumb' = c
            /\ Goto(p, [pc |-> "crumb", res |-> NoResult])
    /\ UNCHANGED <<cache, req, loc, nfetch, quote>>

\* quotes.rs:118-131  client.crumb().await, then the second attempt_fetch
ReadCrumb(p) ==
    /\ pc[p] = "crumb"
    /\ hist' = [hist EXCEPT ![p] =
            Logged(@, <<Event("crumb", NoUrl, 0, IF crumb = None THEN "None" ELSE crumb[1])>>)]
    /\ IF crumb = None
       THEN /\ loc' = loc
            /\ Goto(p, [pc |-> "done",
                        res |-> Fail(Auth(<<"Crumb is not set after ensuring credentials">>))])
       ELSE /\ loc' = [loc EXCEPT ![p].attempt = 2, ![p].crumb = crumb]
            /\ Goto(p, [pc |-> "attempt_fetch", res |-> NoResult])
    /\ UNCHANGED <<cache, crumb, req, nfetch, quote>>

Next ==
    \/ \E p \in SeqProcs, symbols \in SymbolLists, fields \in FieldOpts, cache_mode \in CacheModes :
          Call(p, symbols, fields, cache_mode)
    \/ \E p \in SeqProcs : AttemptFetch(p)
    \/ \E p \in SeqProcs : SendWithRetry(p)
    \/ \E p \in SeqProcs : CachePut(p)
    \/ \E p \in SeqProcs : EnsureCredentials(p)
    \/ \E p \in SeqProcs : ReadCrumb(p)

Spec == Init /\ [][Next]_vars

(***************************************************************************)
(* Reading the history of a call                                           *)
(***************************************************************************)
Log(p) == hist[p].log
Done(p) == pc[p] = "done"
Running(p) == pc[p] /= "idle"

Sends(p) == Count(Log(p), "send")
Ensures(p) == Count(Log(p), "ensure_credentials")
Attempts(p) == Count(Log(p), "attempt_fetch")
Reads(p) == Count(Log(p), "cache_get")
Writes(p) == Count(Log(p), "cache_put")

Has(p, op, withCrumb) ==
    \E i \in 1..Len(Log(p)) :
        Log(p)[i].op = op /\ (HasParam(Log(p)[i].url, "crumb") <=> withCrumb)

AuthAttempts(p) ==
    Cardinality({i \in 1..Len(Log(p)) :
        Log(p)[i].op = "attempt_fetch" /\ HasParam(Log(p)[i].url, "crumb")})

\* the anonymous attempt got 401 or 403
AnonUnauthorized(p) ==
    \E i \in 1..Len(Log(p)) :
        /\ Log(p)[i].op = "response"
        /\ ~HasParam(Log(p)[i].url, "crumb")
        /\ Log(p)[i].status \in {401, 403}

\* ensure_credentials returned Ok and crumb() returned Some
RefreshSucceeded(p) ==
    \E i \in 1..Len(Log(p)) : Log(p)[i].op = "crumb" /\ Log(p)[i].body /= "None"

Last(p) == Log(p)[Len(Log(p))]
AnonKey(p) == BuildUrl(req[p].symbols, req[p].fields, None)

(***************************************************************************)
(* C1  A 401 or 403 on the anonymous attempt is followed by exactly one    *)
(* ensure_credentials call and exactly one authenticated retry, and never  *)
(* by a third attempt.  (As stated: refuted when the refresh fails.)       *)
(***************************************************************************)
C1_ExactlyOneRetry ==
    \A p \in Procs :
        (Done(p) /\ AnonUnauthorized(p)) =>
            /\ Ensures(p) = 1
            /\ AuthAttempts(p) = 1
            /\ Attempts(p) = 2

(***************************************************************************)
(* C1 amended  After a 401 or 403 on the anonymous attempt the fetch makes *)
(* exactly one ensure_credentials call; it makes exactly one authenticated *)
(* attempt (a second attempt_fetch, with the crumb) when the refresh       *)
(* succeeded and a crumb is present, and none otherwise; there is never a  *)
(* third attempt.                                                          *)
(***************************************************************************)
C1_OneRefreshAtMostOneRetry ==
    \A p \in Procs :
        /\ Attempts(p) <= 2
        /\ AuthAttempts(p) <= 1
        /\ (Done(p) /\ AnonUnauthorized(p)) =>
              /\ Ensures(p) = 1
              /\ AuthAttempts(p) = (IF RefreshSucceeded(p) THEN 1 ELSE 0)
              /\ Attempts(p) = 1 + AuthAttempts(p)

C1_Witness ==
    \E p \in Procs :
        /\ Done(p) /\ AnonUnauthorized(p) /\ RefreshSucceeded(p)
        /\ Last(p).op = "response" /\ Last(p).status = 403
        /\ HasParam(Last(p).url, "crumb")

(***************************************************************************)
(* C2  A fetch makes at most 2 transport sends and at most 1               *)
(* ensure_credentials call; a non-2xx status on the authenticated attempt  *)
(* is the last thing the fetch does: it returns an error, whatever the     *)
(* status, 401 and 403 included.                                           *)
(***************************************************************************)
C2_BoundedAttempts ==
    \A p \in Procs :
        /\ Sends(p) <= 2
        /\ Ensures(p) <= 1
        /\ \A i \in 1..Len(Log(p)) :
              ( /\ Log(p)[i].op = "response"
                /\ HasParam(Log(p)[i].url, "crumb")
                /\ Log(p)[i].status \notin 200..299 )
              => (i = Len(Log(p)) /\ Done(p) /\ ~res[p].ok)

C2_Witness ==
    \E p \in Procs :
        /\ Done(p) /\ Sends(p) = 2 /\ Ensures(p) = 1
        /\ Last(p).op = "response" /\ Last(p).status = 401
        /\ HasParam(Last(p).url, "crumb")

(***************************************************************************)
(* C3  A terminal non-2xx status maps to the same error on the anonymous   *)
(* and on the authenticated attempt: 404 NotFound, 429 RateLimited,        *)
(* 500..599 ServerError(status), any other Status(status); the error       *)
(* carries the URL string of the request that received the status.         *)
(***************************************************************************)
C3_Expected(status, url_s) ==
    CASE status = 404 -> NotFound(url_s)
      [] status = 429 -> RateLimited(url_s)
      [] status \in 500..599 -> ServerError(status, url_s)
      [] OTHER -> Status(status, url_s)

C3_StatusMapping ==
    \A p \in Procs :
        ( /\ Done(p) /\ Len(Log(p)) > 0
          /\ Last(p).op = "response"
          /\ Last(p).status \notin 200..299
          /\ (HasParam(Last(p).url, "crumb") \/ Last(p).status \notin {401, 403}) )
        => res[p] = Fail(C3_Expected(Last(p).status, UrlToString(Last(p).url)))

C3_Witness ==
    \E p \in Procs :
        /\ Done(p) /\ AuthAttempts(p) = 1
        /\ Last(p).op = "response" /\ Last(p).status = 599
        /\ req[p].symbols = <<"AAPL", "TSLA">> /\ req[p].fields = Some(<<"beta">>)
        /\ res[p].err.kind = "ServerError"
        /\ res[p].err.url = base_quote_v7 \o "?symbols=AAPL%2CTSLA&fields=beta&crumb=c2"

(***************************************************************************)
(* C4  With cache_mode = Bypass a fetch never calls cache_get nor          *)
(* cache_put, and the cache is what it was when the fetch began.           *)
(***************************************************************************)
C4_BypassNoCache ==
    \A p \in Procs :
        (Running(p) /\ req[p].cache_mode = "Bypass") =>
            /\ Reads(p) = 0
            /\ Writes(p) = 0
            /\ cache = hist[p].cache0

C4_Witness ==
    \E p \in Procs :
        /\ Done(p) /\ req[p].cache_mode = "Bypass"
        /\ AuthAttempts(p) = 1 /\ res[p].ok
        /\ cache /= << >>

(***************************************************************************)
(* C5  After a 401 or 403 on the anonymous attempt and a successful        *)
(* refresh, the fetch sends the crumb-bearing request to the transport,    *)
(* in every cache mode and whatever the cache holds.                       *)
(***************************************************************************)
C5_AuthAttemptAlwaysSends ==
    \A p \in Procs :
        (Done(p) /\ AnonUnauthorized(p) /\ RefreshSucceeded(p)) => Has(p, "send", TRUE)

(***************************************************************************)
(* C6  With cache_mode = Use, a fetch whose crumb-free key was written by  *)
(* an earlier fetch returns the body stored under that key and makes no    *)
(* transport send.  (The cache starts empty and only cache_put fills it.)  *)
(***************************************************************************)
C6_CachedKeyServed ==
    \A p \in Procs :
        ( /\ Running(p) /\ req[p].cache_mode = "Use"
          /\ AnonKey(p) \in DOMAIN hist[p].cache0 )
        => /\ Sends(p) = 0
           /\ pc[p] \in {"attempt_fetch", "done"}
           /\ Done(p) => res[p] = Ok(hist[p].cache0[AnonKey(p)])

C6_Witness ==
    \E p \in Procs :
        /\ Done(p) /\ req[p].cache_mode = "Use" /\ nfetch = 2
        /\ req[p].fields = Some(<<"beta">>)
        /\ AnonKey(p) \in DOMAIN hist[p].cache0
        /\ res[p].ok /\ Sends(p) = 0

(***************************************************************************)
(* C7  A cache hit of the anonymous attempt (cache_mode = Use) ends the    *)
(* fetch with that body: nothing is sent, nothing is written to the cache, *)
(* the credential manager is not called.                                   *)
(***************************************************************************)
C7_CacheHitTerminal ==
    \A p \in Procs :
        ( /\ Len(Log(p)) >= 2
          /\ Log(p)[2].op = "cache_get" /\ Log(p)[2].body /= "" )
        => /\ Done(p) /\ Len(Log(p)) = 2
           /\ res[p] = Ok(Log(p)[2].body)
           /\ CacheGet(hist[p].cache0, Log(p)[2].url) = Some(Log(p)[2].body)
           /\ ~HasParam(Log(p)[2].url, "crumb")
           /\ cache = hist[p].cache0

C7_Witness ==
    \E p \in Procs :
        /\ Done(p) /\ Len(Log(p)) = 2
        /\ Log(p)[2].op = "cache_get" /\ Log(p)[2].body \in OkBodies
        /\ res[p].ok

(***************************************************************************)
(* C8  cache_put is called exactly for a 2xx response under a cache mode   *)
(* other than Bypass, with the URL and the body of that attempt, before    *)
(* the fetch returns; the body of a non-2xx response is never stored.      *)
(***************************************************************************)
C8_WriteIffSuccess ==
    \A p \in Procs :
        /\ \A i \in 1..Len(Log(p)) :
              Log(p)[i].op = "cache_put" =>
                  /\ i > 1
                  /\ Log(p)[i - 1].op = "response"
                  /\ Log(p)[i - 1].status \in 200..299
                  /\ Log(p)[i - 1].url = Log(p)[i].url
                  /\ Log(p)[i - 1].body = Log(p)[i].body
                  /\ req[p].cache_mode /= "Bypass"
        /\ Done(p) =>
              \A i \in 1..Len(Log(p)) :
                  ( /\ Log(p)[i].op = "response"
                    /\ Log(p)[i].status \in 200..299
                    /\ req[p].cache_mode /= "Bypass" )
                  => /\ i < Len(Log(p))
                     /\ Log(p)[i + 1].op = "cache_put"
                     /\ CacheGet(cache, Log(p)[i].url) = Some(Log(p)[i].body)
        /\ \A k \in DOMAIN cache : cache[k] \notin ErrBodies

C8_Witness ==
    \E p \in Procs :
        /\ Done(p) /\ req[p].cache_mode = "Use" /\ res[p].ok
        /\ Last(p).op = "cache_put" /\ HasParam(Last(p).url, "crumb")
        /\ Has(p, "response", FALSE)

(***************************************************************************)
(* C9  When ensure_credentials fails the fetch returns the manager's Auth  *)
(* error; when it succeeds and crumb() is None the fetch returns           *)
(* Auth("Crumb is not set after ensuring credentials"); either way no      *)
(* authenticated request is made and the cache is not written.             *)
(***************************************************************************)
C9_NoRetry(p) ==
    /\ Done(p)
    /\ AuthAttempts(p) = 0
    /\ ~Has(p, "send", TRUE)
    /\ Writes(p) = 0
    /\ cache = hist[p].cache0

C9_RefreshFailure ==
    \A p \in Procs :
        \A i \in 1..Len(Log(p)) :
            /\ (Log(p)[i].op = "ensure_credentials" /\ Log(p)[i].body /= "Ok") =>
                  /\ i = Len(Log(p))
                  /\ C9_NoRetry(p)
                  /\ res[p] = Fail(Auth(<<Log(p)[i].body>>))
            /\ (Log(p)[i].op = "crumb" /\ Log(p)[i].body = "None") =>
                  /\ i = Len(Log(p))
                  /\ C9_NoRetry(p)
                  /\ res[p] = Fail(Auth(<<"Crumb is not set after ensuring credentials">>))

C9_Witness ==
    \E p \in Procs :
        /\ Done(p)
        /\ Last(p).op = "ensure_credentials" /\ Last(p).body = "cookie fetch failed"
        /\ crumb /= None /\ cache /= << >>
        /\ res[p].err.kind = "Auth"

(***************************************************************************)
(* SpecQuote: a single-symbol lookup on top of a body result               *)
(***************************************************************************)
Symbols == {"AAPL", "TSLA"}

\* the Results fetch_v7_quote_body can return
BodyResults ==
    {Ok(b) : b \in QuoteBodies}
    \cup {Fail(e) : e \in SendErrors \cup EnsureErrors}
    \cup {Fail(NotFound(UrlToString(BuildUrl(<<sym>>, None, None)))) : sym \in Symbols}

InitQuote ==
    /\ InitFetch
    /\ \E api \in {"fetch_quote", "fetch_quote_raw"}, symbol \in Symbols, body \in BodyResults :
          quote = [stage |-> "body", api |-> api, symbol |-> symbol, body |-> body,
                   results |-> NoResult, out |-> NoResult]

FetchVars == <<cache, crumb, pc, req, loc, res, hist, nfetch>>

\* ticker/quote.rs:16-17  fetch_quote awaits fetch_v7_quotes
QuotesReturn ==
    /\ quote.stage = "body" /\ quote.api = "fetch_quote"
    /\ quote' = [quote EXCEPT !.stage = "results", !.results = FetchV7Quotes(quote.body)]
    /\ UNCHANGED FetchVars

\* ticker/quote.rs:35-36  fetch_quote_raw awaits fetch_v7_quotes_raw
QuotesRawReturn ==
    /\ quote.stage = "body" /\ quote.api = "fetch_quote_raw"
    /\ quote' = [quote EXCEPT !.stage = "results", !.results = FetchV7QuotesRaw(quote.body)]
    /\ UNCHANGED FetchVars

\* ticker/quote.rs:19-24  fetch_quote returns
FetchQuoteReturn ==
    /\ quote.stage = "results" /\ quote.api = "fetch_quote"
    /\ quote' = [quote EXCEPT !.stage = "out", !.out = FetchQuote(quote.results, quote.symbol)]
    /\ UNCHANGED FetchVars

\* ticker/quote.rs:38-40  fetch_quote_raw returns
FetchQuoteRawReturn ==
    /\ quote.stage = "results" /\ quote.api = "fetch_quote_raw"
    /\ quote' = [quote EXCEPT !.stage = "out", !.out = FetchQuoteRaw(quote.results, quote.symbol)]
    /\ UNCHANGED FetchVars

NextQuote == QuotesReturn \/ QuotesRawReturn \/ FetchQuoteReturn \/ FetchQuoteRawReturn

SpecQuote == InitQuote /\ [][NextQuote]_vars

(***************************************************************************)
(* C10  fetch_quote and fetch_quote_raw fail with MissingData naming the   *)
(* requested symbol when the underlying fetch succeeds with an empty       *)
(* sequence, return a record when it succeeds with a non-empty one, and    *)
(* return the error of the underlying fetch unchanged when it fails.       *)
(***************************************************************************)
C10_SingleSymbol ==
    quote.stage = "out" =>
        /\ (quote.results.ok /\ Len(quote.results.value) = 0) =>
              /\ ~quote.out.ok
              /\ quote.out.err.kind = "MissingData"
              /\ quote.out.err.msg = <<"no quote result found for symbol ", quote.symbol>>
        /\ (quote.results.ok /\ Len(quote.results.value) > 0) =>
              /\ quote.out.ok
              /\ \E i \in 1..Len(quote.results.value) :
                    quote.out.value = IF quote.api = "fetch_quote"
                                      THEN QuoteFrom(quote.results.value[i])
                                      ELSE quote.results.value[i]
        /\ ~quote.results.ok =>
              /\ ~quote.out.ok
              /\ quote.out.err = quote.results.err
        /\ ~quote.body.ok => quote.out = Fail(quote.body.err)

C10_Witness ==
    /\ quote.stage = "out" /\ quote.api = "fetch_quote_raw" /\ quote.symbol = "TSLA"
    /\ quote.body = Ok("{\"quoteResponse\":{\"result\":null}}")
    /\ quote.results = Ok(<< >>)
    /\ quote.out.err.kind = "MissingData"
(***************************************************************************)
(* SpecDecode: one fetch_v7_quotes / fetch_v7_quotes_raw call, from the    *)
(* request to the decoded sequence.  The server may answer 2xx with any    *)
(* body of QuoteBodies.  quote.typed and quote.raw hold what the typed and *)
(* the raw variant return for the body result the fetch ended with.        *)
(***************************************************************************)
InitDecode ==
    /\ InitFetch
    /\ quote = [stage |-> "fetch", typed |-> NoResult, raw |-> NoResult]

\* the first call of a fresh client
CallOnce(p, symbols, fields, cache_mode) ==
    /\ nfetch = 0
    /\ Call(p, symbols, fields, cache_mode)

\* quotes.rs:180-186  fetch_v7_quotes returns
FetchV7QuotesReturn(p) ==
    /\ pc[p] = "done" /\ quote.typed = NoResult
    /\ quote' = [quote EXCEPT !.stage = "decoded", !.typed = FetchV7Quotes(res[p])]
    /\ UNCHANGED FetchVars

\* quotes.rs:197-207  fetch_v7_quotes_raw returns
FetchV7QuotesRawReturn(p) ==
    /\ pc[p] = "done" /\ quote.raw = NoResult
    /\ quote' = [quote EXCEPT !.stage = "decoded", !.raw = FetchV7QuotesRaw(res[p])]
    /\ UNCHANGED FetchVars

NextDecode ==
    \E p \in SeqProcs :
        \/ \E symbols \in SymbolLists, fields \in FieldOpts, cache_mode \in CacheModes :
              CallOnce(p, symbols, fields, cache_mode)
        \/ AttemptFetch(p)
        \/ SendWithRetryFrom(p, QuoteBodies)
        \/ CachePut(p)
        \/ EnsureCredentials(p)
        \/ ReadCrumb(p)
        \/ FetchV7QuotesReturn(p)
        \/ FetchV7QuotesRawReturn(p)

SpecDecode == InitDecode /\ [][NextDecode]_vars

\* the elements of the document's quoteResponse.result, none when the envelope
\* or the result field is absent or null
C11_ResultField(doc) ==
    IF doc.top = "object" /\ doc.qr = "object" /\ doc.result = "array"
    THEN doc.items ELSE << >>

(***************************************************************************)
(* C11  A 2xx anonymous response whose body parses yields, in every cache  *)
(* mode and for every symbol list, a sequence equal to the document's      *)
(* quoteResponse.result, element by element in the same order, and the     *)
(* empty sequence when the envelope or the result field is absent or null. *)
(***************************************************************************)
C11_ResultSequence ==
    \A p \in SeqProcs : \A i \in 1..Len(Log(p)) :
        LET ev == Log(p)[i]
            doc == ParseJson(ev.body)
            field == C11_ResultField(doc)
        IN  (Done(p) /\ ev.op = "response" /\ IsSuccess(ev.status)
                /\ ~HasParam(ev.url, "crumb") /\ doc.valid) =>
              /\ res[p] = Ok(ev.body)
              /\ quote.raw /= NoResult => quote.raw = Ok(field)
              /\ (quote.typed /= NoResult /\ quote.typed.ok) =>
                    /\ Len(quote.typed.value) = Len(field)
                    /\ \A j \in 1..Len(field) : quote.typed.value[j] = V7QuoteNode(field[j])

\* the request line for a symbol list, a field list and a crumb, written out
C12_ExpectedUrl(symbols, fields, crumbArg) ==
    "https://query1.finance.yahoo.com/v7/finance/quote?symbols="
    \o (IF symbols = <<"AAPL">> THEN "AAPL" ELSE "AAPL%2CTSLA")
    \o (IF fields = Some(<<"beta">>) THEN "&fields=beta" ELSE "")
    \o (IF crumbArg = None THEN "" ELSE "&crumb=" \o crumbArg[1])

\* the crumb read by this call before its i-th event, None when none was
C12_CrumbBefore(p, i) ==
    IF \E j \in 1..(i - 1) : Log(p)[j].op = "crumb"
    THEN Some(Log(p)[CHOOSE j \in 1..(i - 1) : Log(p)[j].op = "crumb"].body)
    ELSE None

(***************************************************************************)
(* C12  Every URL a fetch forms, as cache key or as request, carries       *)
(* symbols as the comma-joined list, fields only when a non-empty field    *)
(* list was given, and crumb only on the attempt made after the crumb was  *)
(* read; the first attempt of every fetch is formed without crumb even     *)
(* when the credential manager already holds one.                          *)
(***************************************************************************)
C12_QueryParameters ==
    \A p \in SeqProcs :
        /\ \A i \in 1..Len(Log(p)) :
              Log(p)[i].url /= NoUrl =>
                  UrlToString(Log(p)[i].url) =
                      C12_ExpectedUrl(req[p].symbols, req[p].fields, C12_CrumbBefore(p, i))
        /\ Len(Log(p)) > 0 =>
              /\ Log(p)[1].op = "attempt_fetch"
              /\ ~HasParam(Log(p)[1].url, "crumb")

C12_Witness ==
    \E p \in SeqProcs :
        /\ nfetch = 2 /\ crumb /= None /\ Ensures(p) = 0
        /\ req[p].symbols = <<"AAPL", "TSLA">> /\ req[p].fields = Some(<< >>)
        /\ Sends(p) = 1 /\ Last(p).op = "response"
        /\ UrlToString(Last(p).url) =
              "https://query1.finance.yahoo.com/v7/finance/quote?symbols=AAPL%2CTSLA"

(***************************************************************************)
(* SpecConvert: the conversion of one typed record into a Quote            *)
(***************************************************************************)
\* the V7QuoteNode values the conversion is applied to
V7QuoteNodes ==
    [symbol : {None, Some("AAPL")},
     short_name : {None, Some("Apple Inc.")},
     regular_market_price : {None},
     full_exchange_name : {None, Some("NasdaqGS")},
     exchange : {None, Some("NMS")},
     market : {None, Some("us_market")},
     market_cap_figure_exchange : {None, Some("NYQ")}]

InitConvert ==
    /\ InitFetch
    /\ \E n \in V7QuoteNodes : quote = [stage |-> "node", node |-> n, out |-> None]

\* quotes.rs:210-230  Quote::from(node)
QuoteFromNode ==
    /\ quote.stage = "node"
    /\ quote' = [quote EXCEPT !.stage = "quote", !.out = Some(QuoteFrom(quote.node))]
    /\ UNCHANGED FetchVars

NextConvert == QuoteFromNode

SpecConvert == InitConvert /\ [][NextConvert]_vars

\* the first present of the four exchange fields, None when all are absent
C13_FirstPresent(n) ==
    IF n.full_exchange_name /= None THEN n.full_exchange_name
    ELSE IF n.exchange /= None THEN n.exchange
    ELSE IF n.market /= None THEN n.market
    ELSE n.market_cap_figure_exchange

(***************************************************************************)
(* C13  The exchange of a converted record is resolved from the first      *)
(* present among fullExchangeName, exchange, market and                    *)
(* marketCapFigureExchange, and from that value only; with none present    *)
(* there is no exchange.                                                   *)
(***************************************************************************)
C13_ExchangeResolution ==
    quote.stage = "quote" =>
        LET first == C13_FirstPresent(quote.node)
        IN  quote.out[1].exchange =
                IF first = None THEN None ELSE Some([parsed_from |-> first[1]])

C13_Witness ==
    /\ quote.stage = "quote"
    /\ quote.node.full_exchange_name = Some("NasdaqGS")
    /\ quote.node.exchange = Some("NMS")
    /\ quote.out[1].exchange = Some([parsed_from |-> "NasdaqGS"])

\* an event that ends the anonymous attempt otherwise than in 401 or 403:
\* a cache hit, a response with another status, or a transport error
C14_EndsWithoutRefresh(ev) ==
    /\ ~HasParam(ev.url, "crumb")
    /\ \/ ev.op = "cache_get" /\ ev.body /= ""
       \/ ev.op = "response" /\ ev.status \notin {401, 403}
       \/ ev.op \in {"send_error", "body_error"}

(***************************************************************************)
(* C14  ensure_credentials is called only directly after the anonymous     *)
(* attempt answered 401 or 403.  A fetch whose anonymous attempt ends in a *)
(* cache hit, a 2xx, another non-2xx or a transport error never calls the  *)
(* credential manager and never makes a second attempt; on another non-2xx *)
(* it ends at once with the error classified from the status.              *)
(***************************************************************************)
C14_RefreshOnlyOnUnauthorized ==
    \A p \in SeqProcs : \A i \in 1..Len(Log(p)) :
        LET ev == Log(p)[i]
        IN  /\ ev.op = "ensure_credentials" =>
                  /\ i > 1
                  /\ Log(p)[i - 1].op = "response"
                  /\ ~HasParam(Log(p)[i - 1].url, "crumb")
                  /\ Log(p)[i - 1].status \in {401, 403}
            /\ C14_EndsWithoutRefresh(ev) =>
                  /\ Ensures(p) = 0 /\ Count(Log(p), "crumb") = 0
                  /\ Attempts(p) = 1 /\ Sends(p) <= 1
                  /\ \A j \in (i + 1)..Len(Log(p)) : Log(p)[j].op = "cache_put"
            /\ (C14_EndsWithoutRefresh(ev) /\ ev.op = "response" /\ ~IsSuccess(ev.status)) =>
                  /\ i = Len(Log(p))
                  /\ Done(p)
                  /\ res[p] = Fail(C3_Expected(ev.status, UrlToString(ev.url)))

C14_Witness ==
    \E p \in SeqProcs :
        /\ Done(p) /\ nfetch = 2 /\ crumb /= None
        /\ Last(p).op = "response" /\ Last(p).status = 429
        /\ Ensures(p) = 0 /\ Sends(p) = 1
        /\ res[p].err.kind = "RateLimited"

(***************************************************************************)
(* C15  A transport failure of either attempt, in send_with_retry or in    *)
(* reading the body, is the outcome of the fetch: the fetch is over with   *)
(* that error, and nothing follows it, no credential refresh, no further   *)
(* send and no cache write.                                                *)
(***************************************************************************)
C15_TransportErrorPropagated ==
    \A p \in SeqProcs : \A i \in 1..Len(Log(p)) :
        LET ev == Log(p)[i]
        IN  ev.op \in {"send_error", "body_error"} =>
              /\ i = Len(Log(p))
              /\ Done(p)
              /\ ~res[p].ok
              /\ res[p].err \in (IF ev.op = "send_error" THEN SendErrors ELSE BodyErrors)
              /\ Writes(p) = 0
              /\ cache = hist[p].cache0

C15_Witness ==
    \E p \in SeqProcs :
        /\ Done(p)
        /\ Last(p).op = "body_error" /\ HasParam(Last(p).url, "crumb")
        /\ Sends(p) = 2 /\ Ensures(p) = 1
        /\ res[p] = Fail(Err("Transport", 0, "", <<"get_text">>))

(***************************************************************************)
(* SpecLive: Spec with every collaborator returning.  Each step of a fetch *)
(* is an await on a collaborator (cache, transport, credential manager);   *)
(* when each of them returns, the step that is waiting is taken.           *)
(***************************************************************************)
Step(p) ==
    AttemptFetch(p) \/ SendWithRetry(p) \/ CachePut(p) \/ EnsureCredentials(p) \/ ReadCrumb(p)

SpecLive == Spec /\ \A p \in SeqProcs : WF_vars(Step(p))

\* the index of the attempt_fetch event that opens the last attempt of the call
C16_LastAttempt(p) ==
    CHOOSE i \in 1..Len(Log(p)) :
        /\ Log(p)[i].op = "attempt_fetch"
        /\ \A j \in (i + 1)..Len(Log(p)) : Log(p)[j].op /= "attempt_fetch"

\* a call has an outcome exactly when it is over; a success is the body of a
\* cache hit or of a 2xx response of the last attempt; a non-2xx response of the
\* last attempt makes the outcome an error
C16_Outcome ==
    \A p \in SeqProcs :
        /\ Running(p) => (Done(p) <=> res[p] /= NoResult)
        /\ (Done(p) /\ res[p].ok) =>
              \E i \in (C16_LastAttempt(p) + 1)..Len(Log(p)) :
                  /\ \/ Log(p)[i].op = "cache_get" /\ Log(p)[i].body /= ""
                     \/ Log(p)[i].op = "response" /\ IsSuccess(Log(p)[i].status)
                  /\ Log(p)[i].body = res[p].value
        /\ Done(p) =>
              \A i \in (C16_LastAttempt(p) + 1)..Len(Log(p)) :
                  (Log(p)[i].op = "response" /\ ~IsSuccess(Log(p)[i].status)) => ~res[p].ok

\* the outcome of a finished call stays as it is until the caller starts another
C16_OutcomeKept ==
    \A p \in SeqProcs : (Done(p) /\ pc'[p] = "done") => res'[p] = res[p]

(***************************************************************************)
(* C16  Every fetch whose collaborators each return reaches a terminal     *)
(* outcome, and exactly one: Ok or an error, which then stays.  It is a    *)
(* success only if its last attempt ended in a cache hit or a 2xx answer,  *)
(* and a fetch whose last attempt got a non-2xx answer ends in an error.   *)
(***************************************************************************)
C16_Terminates ==
    /\ []C16_Outcome
    /\ [][C16_OutcomeKept]_vars
    /\ \A p \in SeqProcs : (pc[p] \notin {"idle", "done"}) ~> Done(p)

C16_Witness ==
    \E p \in SeqProcs :
        /\ Done(p) /\ res[p].ok
        /\ AuthAttempts(p) = 1 /\ Sends(p) = 2
        /\ Last(p).op = "response" /\ Last(p).status = 200
        /\ res[p].value = Last(p).body

\* the document has no quoteResponse member or no result in it, or one that is null
C17_NoResultField(doc) ==
    \/ doc.top /= "object"
    \/ doc.qr \in {"absent", "null"}
    \/ doc.result \in {"absent", "null"}

(***************************************************************************)
(* C17  On every body on which fetch_v7_quotes succeeds, fetch_v7_quotes_raw *)
(* succeeds with a sequence of the same length whose i-th document is the  *)
(* source of the i-th typed record, and both return the empty sequence     *)
(* when quoteResponse or result is missing or null.                        *)
(***************************************************************************)
C17_RawEquivalent ==
    \A p \in SeqProcs :
        (Done(p) /\ res[p].ok /\ quote.typed /= NoResult /\ quote.raw /= NoResult) =>
            /\ quote.typed.ok =>
                  /\ quote.raw.ok
                  /\ Len(quote.raw.value) = Len(quote.typed.value)
                  /\ \A i \in 1..Len(quote.raw.value) :
                        V7QuoteNode(quote.raw.value[i]) = quote.typed.value[i]
            /\ (ParseJson(res[p].value).valid /\ C17_NoResultField(ParseJson(res[p].value))) =>
                  /\ quote.typed = Ok(<< >>)
                  /\ quote.raw = Ok(<< >>)

(***************************************************************************)
(* C18  The body of a successful authenticated attempt under a mode other  *)
(* than Bypass is stored under the crumb-bearing URL only: after the fetch *)
(* that key holds the body, and the entry of the crumb-free key, like      *)
(* every other entry, is as it was when the fetch began.                   *)
(***************************************************************************)
C18_CrumbKeyOnly ==
    \A p \in SeqProcs :
        ( /\ Done(p) /\ res[p].ok /\ req[p].cache_mode /= "Bypass"
          /\ Last(p).op \in {"response", "cache_put"}
          /\ C12_CrumbBefore(p, Len(Log(p))) /= None ) =>
            LET key == Last(p).url
                anon == CHOOSE i \in 1..Len(Log(p)) :
                            Log(p)[i].op = "attempt_fetch" /\ ~HasParam(Log(p)[i].url, "crumb")
            IN  /\ Last(p).op = "cache_put"
                /\ UrlToString(key) =
                      C12_ExpectedUrl(req[p].symbols, req[p].fields,
                                      C12_CrumbBefore(p, Len(Log(p))))
                /\ CacheGet(cache, key) = Some(res[p].value)
                /\ key /= Log(p)[anon].url
                /\ CacheGet(cache, Log(p)[anon].url) = CacheGet(hist[p].cache0, Log(p)[anon].url)
                /\ \A k \in (DOMAIN cache \cup DOMAIN hist[p].cache0) \ {key} :
                      CacheGet(cache, k) = CacheGet(hist[p].cache0, k)

C18_Witness ==
    \E p \in SeqProcs :
        /\ Done(p) /\ res[p].ok /\ req[p].cache_mode = "Use"
        /\ Sends(p) = 2 /\ Last(p).op = "cache_put" /\ HasParam(Last(p).url, "crumb")
        /\ hist[p].cache0 /= << >>
        /\ AnonKey(p) \notin DOMAIN cache
        /\ Last(p).url \in DOMAIN cache

(***************************************************************************)
(* SpecConc: two fetches running concurrently on one client, sharing its   *)
(* cache and its credential manager.  Each caller makes one call; the      *)
(* steps of the two calls interleave at their awaits.                      *)
(***************************************************************************)
\* the symbol lists of the concurrent callers: the same request, so that the
\* two calls meet at the same cache keys
ConcSymbolLists == {<<"AAPL">>}

\* a caller that has not called yet starts its fetch
CallConc(p, symbols, fields, cache_mode) ==
    /\ pc[p] = "idle"
    /\ Call(p, symbols, fields, cache_mode)

NextConc ==
    \E p \in Procs :
        \/ \E symbols \in ConcSymbolLists, cache_mode \in CacheModes :
              CallConc(p, symbols, None, cache_mode)
        \/ AttemptFetch(p)
        \/ SendWithRetry(p)
        \/ CachePut(p)
        \/ EnsureCredentials(p)
        \/ ReadCrumb(p)

SpecConc == Init /\ [][NextConc]_vars

\* the i-th event of p is a 2xx response to a request p sent
C19_OwnResponse(p, i) ==
    /\ i > 1
    /\ Log(p)[i].op = "response" /\ IsSuccess(Log(p)[i].status)
    /\ Log(p)[i - 1].op = "send" /\ Log(p)[i - 1].url = Log(p)[i].url

\* some fetch stored body under url after receiving it in a 2xx response to url
C19_Stored(url, body) ==
    \E q \in Procs : \E j \in 2..Len(Log(q)) :
        /\ Log(q)[j].op = "cache_put" /\ Log(q)[j].url = url /\ Log(q)[j].body = body
        /\ C19_OwnResponse(q, j - 1)
        /\ Log(q)[j - 1].url = url /\ Log(q)[j - 1].body = body

(***************************************************************************)
(* C19  Under every interleaving of concurrent fetches on one cache and    *)
(* one credential manager, a body returned as success is the body of a 2xx *)
(* response to a request the fetch itself sent, or a body read from the    *)
(* cache that some fetch stored under the same URL after receiving it in a *)
(* 2xx response; and each fetch sends at most two requests and calls       *)
(* ensure_credentials at most once.                                        *)
(***************************************************************************)
C19_ConcurrentProvenance ==
    \A p \in Procs :
        /\ Sends(p) <= 2
        /\ Ensures(p) <= 1
        /\ (Done(p) /\ res[p].ok) =>
              \E i \in 1..Len(Log(p)) :
                  /\ Log(p)[i].body = res[p].value
                  /\ \/ C19_OwnResponse(p, i)
                     \/ /\ Log(p)[i].op = "cache_get"
                        /\ UrlToString(Log(p)[i].url) =
                              C12_ExpectedUrl(req[p].symbols, req[p].fields, C12_CrumbBefore(p, i))
                        /\ C19_Stored(Log(p)[i].url, Log(p)[i].body)

\* one fetch returns, from the cache, what the other stored while the first was
\* refreshing its credentials
C19_Witness ==
    \E p \in Procs : \E q \in Procs \ {p} :
        /\ Done(p) /\ res[p].ok
        /\ Sends(p) = 1 /\ Ensures(p) = 1
        /\ Last(p).op = "cache_get" /\ HasParam(Last(p).url, "crumb")
        /\ C19_Stored(Last(p).url, res[p].value)
        /\ Sends(q) = 2 /\ Last(q).op = "cache_put" /\ Last(q).url = Last(p).url

(***************************************************************************)
(* C20  When the underlying fetch succeeds with more than one record,      *)
(* fetch_quote and fetch_quote_raw return the last record of the sequence, *)
(* not the first, and discard the others without error.                    *)
(***************************************************************************)
C20_LastRecord ==
    (quote.stage = "out" /\ quote.results.ok /\ Len(quote.results.value) > 1) =>
        LET last == quote.results.value[Len(quote.results.value)]
        IN  quote.out = Ok(IF quote.api = "fetch_quote" THEN QuoteFrom(last) ELSE last)

C20_Witness ==
    /\ quote.stage = "out" /\ quote.api = "fetch_quote" /\ quote.symbol = "AAPL"
    /\ quote.results.ok /\ Len(quote.results.value) = 2
    /\ quote.results.value[1].symbol = Some("AAPL")
    /\ quote.out.ok /\ quote.out.value.symbol = "TSLA"
====
